---- MODULE Spec2Model ----
(***************************************************************************)
(* Thread aggregation pipeline of inbox-zero:                              *)
(*   getThreads        (Gmail-style provider,  controller.ts 22-104)       *)
(*   getOutlookThreads (Graph-style provider,  controller.ts 106-200)      *)
(*   GET               (Graph-style endpoint,  route.ts 10-45)             *)
(* One page request is a state machine whose steps are the stretches of    *)
(* code between two awaits.                                                *)
(***************************************************************************)
EXTENDS Naturals, Sequences, FiniteSets, TLC

\* ---------------------------------------------------------------- bounds
MaxThreads == 2      \* thread ids the provider can put in one page
MaxStore == 2        \* automation records in the record store

\* ------------------------------------------------------------- constants
maxDuration == 30    \* route.ts:8
DefaultLimit == 50   \* controller.ts:53 and :140  (query.limit || 50)

\* undefined / null / a missing search parameter
None == "<none>"

\* JavaScript truthiness of an optional string
Truthy(v) == v /= None /\ v /= ""

IdNames == <<"A", "B", "C", "D">>
ThreadIds == {IdNames[i] : i \in 1..MaxThreads}

\* the account the request runs for, and a foreign one
emailAccountId == "acct1"
Accounts == {emailAccountId, "acct2"}

\* ExecutedRuleStatus (@prisma/client): the two the query keeps, and one other
ExecutedRuleStatus == [PENDING |-> "PENDING", SKIPPED |-> "SKIPPED", APPLIED |-> "APPLIED"]
Statuses == {ExecutedRuleStatus.PENDING, ExecutedRuleStatus.SKIPPED, ExecutedRuleStatus.APPLIED}

\* GmailLabel (@/utils/gmail/label)
GmailLabel == [INBOX |-> "INBOX", SENT |-> "SENT", DRAFT |-> "DRAFT",
               TRASH |-> "TRASH", SPAM |-> "SPAM", STARRED |-> "STARRED",
               IMPORTANT |-> "IMPORTANT", UNREAD |-> "UNREAD"]

\* labelIds: undefined (no label filter); the code never builds an empty array
NoLabels == <<>>

\* ------------------------------------------------------ query translation
\* getLabelIds: the switch compares the raw string
getLabelIds_keepsRaw(type) ==
  CASE type = "inbox" -> <<GmailLabel.INBOX>>
    [] type = "sent" -> <<GmailLabel.SENT>>
    [] type = "draft" -> <<GmailLabel.DRAFT>>
    [] type = "trash" -> <<GmailLabel.TRASH>>
    [] type = "spam" -> <<GmailLabel.SPAM>>
    [] type = "starred" -> <<GmailLabel.STARRED>>
    [] type = "important" -> <<GmailLabel.IMPORTANT>>
    [] type = "unread" -> <<GmailLabel.UNREAD>>
    [] type = "archive" -> NoLabels
    [] type = "all" -> NoLabels
    [] OTHER -> IF ~Truthy(type) THEN <<GmailLabel.INBOX>> ELSE <<type>>

getLabelIds(type) ==
  CASE type = "inbox" -> <<GmailLabel.INBOX>>
    [] type = "sent" -> <<GmailLabel.SENT>>
    [] type = "draft" -> <<GmailLabel.DRAFT>>
    [] type = "trash" -> <<GmailLabel.TRASH>>
    [] type = "spam" -> <<GmailLabel.SPAM>>
    [] type = "starred" -> <<GmailLabel.STARRED>>
    [] type = "important" -> <<GmailLabel.IMPORTANT>>
    [] type = "unread" -> <<GmailLabel.UNREAD>>
    [] type = "archive" -> NoLabels
    [] type = "all" -> NoLabels
    [] OTHER -> IF ~Truthy(type) \/ type = "undefined" \/ type = "null"
                THEN <<GmailLabel.INBOX>>
                ELSE <<type>>

\* getQuery (closure of getThreads): the Gmail search string
getQuery_senderFirst(query) ==
  IF Truthy(query.fromEmail) THEN "from:" \o query.fromEmail
  ELSE IF Truthy(query.q) THEN query.q
  ELSE IF query.type = "archive" THEN "-label:" \o GmailLabel.INBOX
  ELSE None

getQuery(query) ==
  IF Truthy(query.q) THEN query.q
  ELSE IF Truthy(query.fromEmail) THEN "from:" \o query.fromEmail
  ELSE IF query.type = "archive" THEN "-label:" \o GmailLabel.INBOX
  ELSE None

\* filters.join(" and ")
RECURSIVE join(_, _)
join(filters, sep) ==
  IF Len(filters) = 0 THEN ""
  ELSE IF Len(filters) = 1 THEN filters[1]
  ELSE filters[1] \o sep \o join(Tail(filters), sep)

\* getFilter (closure of getOutlookThreads): the Graph $filter expression
getFilter(query) ==
  LET f1 == IF Truthy(query.q)
            THEN <<"contains(subject,'" \o query.q \o "')">>
            ELSE <<>>
      f2 == IF Truthy(query.fromEmail)
            THEN <<"from/emailAddress/address eq '" \o query.fromEmail \o "'">>
            ELSE <<>>
      filters == f1 \o f2
  IN IF Len(filters) > 0 THEN join(filters, " and ") ELSE None

\* the argument of getThreadsWithNextPageToken (controller.ts 49-55)
GmailRequest(query) ==
  [api |-> "gmail.threads.list",
   q |-> getQuery(query),
   labelIds |-> IF Truthy(query.labelOrFolderId)
                THEN <<query.labelOrFolderId>>
                ELSE getLabelIds(query.type),
   maxResults |-> IF query.limit /= 0 THEN query.limit ELSE DefaultLimit,
   pageToken |-> IF Truthy(query.nextPageToken) THEN query.nextPageToken ELSE None,
   filter |-> None]

\* the Graph request built in controller.ts 140-148
OutlookRequest_noSkipToken(query) ==
  [api |-> "/me/conversations",
   q |-> None,
   labelIds |-> NoLabels,
   maxResults |-> IF query.limit /= 0 THEN query.limit ELSE DefaultLimit,
   pageToken |-> None,
   filter |-> getFilter(query)]

OutlookRequest(query) ==
  [api |-> "/me/conversations",
   q |-> None,
   labelIds |-> NoLabels,
   maxResults |-> IF query.limit /= 0 THEN query.limit ELSE DefaultLimit,
   pageToken |-> IF Truthy(query.nextPageToken) THEN query.nextPageToken ELSE None,
   filter |-> getFilter(query)]

NoRequest ==
  [api |-> None, q |-> None, labelIds |-> NoLabels, maxResults |-> 0,
   pageToken |-> None, filter |-> None]

\* ------------------------------------------------------------ record store
\* prisma.executedRule rows, in the order the store returns them
NoPlan == [id |-> 0, emailAccountId |-> None, threadId |-> None, status |-> None]

\* rows of the requesting account in every status, and PENDING rows of the
\* foreign account (the ones a missing account filter would let through)
StoreThreadIds == {IdNames[1], IdNames[2]}
RecordKinds ==
  {k \in [emailAccountId : Accounts, threadId : StoreThreadIds, status : Statuses] :
     k.emailAccountId = emailAccountId \/ k.status = ExecutedRuleStatus.PENDING}

StoresOfLen(n) ==
  {[i \in 1..n |-> [id |-> i, emailAccountId |-> k[i].emailAccountId,
                    threadId |-> k[i].threadId, status |-> k[i].status]] :
     k \in [1..n -> RecordKinds]}

Stores == UNION {StoresOfLen(n) : n \in 0..MaxStore}

Range(s) == {s[i] : i \in 1..Len(s)}

\* prisma.executedRule.findMany({ where: { emailAccountId, threadId: { in }, status: { in } } })
findMany_anyStatus(rows, acct, ids) ==
  LET keep(p) == p.emailAccountId = acct /\ p.threadId \in Range(ids)
  IN SelectSeq(rows, keep)

findMany(rows, acct, ids) ==
  LET keep(p) == /\ p.emailAccountId = acct
                 /\ p.threadId \in Range(ids)
                 /\ p.status \in {ExecutedRuleStatus.PENDING, ExecutedRuleStatus.SKIPPED}
  IN SelectSeq(rows, keep)

\* plans.find((p) => p.threadId === id)
find(rows, id) ==
  LET hits == {i \in 1..Len(rows) : rows[i].threadId = id}
  IN IF hits = {} THEN NoPlan
     ELSE rows[CHOOSE i \in hits : \A j \in hits : i <= j]

\* .filter(isDefined)
isDefined(v) == v /= None
filterDefined(s) == SelectSeq(s, isDefined)

\* ------------------------------------------------------------- the inputs
Types == {None, "", "undefined", "null", "inbox", "sent", "draft", "trash",
          "spam", "starred", "important", "unread", "archive", "all",
          "Inbox", "ARCHIVE", "newsletters"}

Queries == [q : {None, "", "invoice"},
            fromEmail : {None, "x@y.com"},
            type : Types,
            labelOrFolderId : {None, "L1"},
            limit : {0, 2},
            nextPageToken : {None, "", "c1"}]

\* a request without filters
PlainQuery == [q |-> None, fromEmail |-> None, type |-> None,
               labelOrFolderId |-> None, limit |-> 0, nextPageToken |-> None]

\* requests without filters, the continuation token varies
PageQueries == {[PlainQuery EXCEPT !.nextPageToken = t] : t \in {None, "", "c1"}}

Cursors == {None, "c1"}
Categories == {None, "newsletter"}

\* sequences without repetition over a set of ids
RECURSIVE Perms(_, _)
Perms(S, n) ==
  IF n = 0 THEN {<<>>}
  ELSE {<<>>} \cup {<<x>> \o p : x \in S, p \in Perms(S, n - 1)}

NoRepeat(s) == \A i, j \in 1..Len(s) : i /= j => s[i] /= s[j]

\* a Gmail thread summary may lack its id (Schema$Thread.id is optional)
GmailPages == {p \in Perms(ThreadIds \cup {None}, MaxThreads) : NoRepeat(p)}
OutlookPages == {p \in Perms(ThreadIds, MaxThreads) : NoRepeat(p)}

\* --------------------------------------------------------------- the state
VARIABLES
  provider,       \* "gmail" (getThreads) or "outlook" (GET + getOutlookThreads)
  query,          \* the parsed query
  accessToken,    \* what the auth collaborator supplied
  store,          \* executedRule rows
  pc,             \* position of the request
  req,            \* the request handed to the provider client
  conversations,  \* ids of the provider page, in the provider's order
  cursor,         \* the provider's next-cursor
  threadIds,      \* threadIds / conversationIds
  batch,          \* getThreadsBatch call: "idle", "pending", "done"
  msgs,           \* per requested id: "idle", "pending", "ok", "fail"
  threads,        \* the array the final Promise.all maps over
  plansState,     \* findMany call: "idle", "pending", "done"
  plans,          \* rows returned by findMany
  asm,            \* per thread: started, and the plan found for it
  cat,            \* per thread: getCategory call, "idle", "pending", or its value
  response,       \* what the request ended with
  prevCursor,     \* cursor the provider returned for the previous page of a chain
  providerCalls,  \* calls made to the provider client in this request
  storeCalls,     \* lookups made in the record and category stores
  elapsed,        \* time units since the request started
  \* the reply-tracker endpoint (api/v1/reply-tracker/route.ts)
  replyPc,        \* position of the reply-tracker request
  replyParams,    \* its search parameters
  replyAuth,      \* whether validateApiKeyAndGetGmailClient accepts the request
  replyFailed,    \* the step that failed: "none", "auth", "validation", "trackers", "threads"
  replyTrackers,  \* threadIds of the trackers getPaginatedThreadTrackers returned
  replyThreads,   \* threads getThreadsBatchAndParse returned
  replyCount,     \* count getPaginatedThreadTrackers returned
  replyResponse,  \* what the reply-tracker request ended with
  trackerCalls,   \* calls of getPaginatedThreadTrackers
  fetchCalls      \* calls of getThreadsBatchAndParse

replyVars == <<replyPc, replyParams, replyAuth, replyFailed, replyTrackers,
               replyThreads, replyCount, replyResponse, trackerCalls, fetchCalls>>

vars == <<provider, query, accessToken, store, pc, req, conversations, cursor,
          threadIds, batch, msgs, threads, plansState, plans, asm, cat,
          response, prevCursor, providerCalls, storeCalls, elapsed, replyVars>>

NoResponse ==
  [kind |-> "none", status |-> 0, error |-> None, threads |-> <<>>, nextPageToken |-> None]

\* an exception leaving the controller
Throw(msg) ==
  [kind |-> "throw", status |-> 0, error |-> msg, threads |-> <<>>, nextPageToken |-> None]

\* NextResponse.json(body): no init argument, so the status is 200
NextResponseJson(err, ts, tok) ==
  [kind |-> "json", status |-> 200, error |-> err, threads |-> ts, nextPageToken |-> tok]

\* the value getThreads returns
Return(ts, tok) ==
  [kind |-> "return", status |-> 0, error |-> None, threads |-> ts, nextPageToken |-> tok]

NoAsm == [started |-> FALSE, plan |-> NoPlan]

\* ------------------------------------------- reply-tracker: data and helpers
pageVars == <<provider, query, accessToken, store, pc, req, conversations, cursor,
              threadIds, batch, msgs, threads, plansState, plans, asm, cat,
              response, prevCursor, providerCalls, storeCalls, elapsed>>

\* ThreadTrackerType (@prisma/client)
ThreadTrackerType == [NEEDS_REPLY |-> "NEEDS_REPLY", AWAITING |-> "AWAITING"]

\* the type values a request can carry: missing, the two valid ones, another
ReplyTypeParams == {None, "needs-reply", "needs-follow-up", "sent"}

\* replyTrackerQuerySchema.safeParse: type is "needs-reply" | "needs-follow-up"
safeParse(params) ==
  [success |-> params.type \in {"needs-reply", "needs-follow-up"}, data |-> params]

\* getType (closure of the reply-tracker GET); "throw" stands for the Error
getType(type) ==
  IF type = "needs-reply" THEN ThreadTrackerType.NEEDS_REPLY
  ELSE IF type = "needs-follow-up" THEN ThreadTrackerType.AWAITING
  ELSE "throw"

\* a parsed message; its fields tell the message and the field apart
MessageNames == {"m1", "m2"}
Message(m) ==
  [headers |-> [subject |-> "subject of " \o m, from |-> "from of " \o m,
                date |-> "date of " \o m],
   snippet |-> "snippet of " \o m]

\* the message lists of a thread, oldest first; a thread may have none
MessageLists ==
  {[i \in 1..Len(p) |-> Message(p[i])] :
     p \in {r \in Perms(MessageNames, 2) : NoRepeat(r)}}

\* one element of response.emails: the fields of the last message, undefined
\* when the thread has no message
emailOf_firstMessage(thread) ==
  LET n == Len(thread.messages)
  IN [threadId |-> thread.id,
      subject |-> IF n = 0 THEN None ELSE thread.messages[1].headers.subject,
      from |-> IF n = 0 THEN None ELSE thread.messages[1].headers.from,
      date |-> IF n = 0 THEN None ELSE thread.messages[1].headers.date,
      snippet |-> IF n = 0 THEN None ELSE thread.messages[1].snippet]

emailOf(thread) ==
  LET n == Len(thread.messages)
  IN [threadId |-> thread.id,
      subject |-> IF n = 0 THEN None ELSE thread.messages[n].headers.subject,
      from |-> IF n = 0 THEN None ELSE thread.messages[n].headers.from,
      date |-> IF n = 0 THEN None ELSE thread.messages[n].headers.date,
      snippet |-> IF n = 0 THEN None ELSE thread.messages[n].snippet]

NoReplyResponse ==
  [kind |-> "none", status |-> 0, error |-> None, emails |-> <<>>, count |-> 0]

\* NextResponse.json({ error }, { status })
ReplyError(msg, status) ==
  [kind |-> "json", status |-> status, error |-> msg, emails |-> <<>>, count |-> 0]

\* NextResponse.json(response)
ReplyEmails(ts, count) ==
  [kind |-> "json", status |-> 200, error |-> None,
   emails |-> [i \in 1..Len(ts) |-> emailOf(ts[i])], count |-> count]

\* validateApiKeyAndGetGmailClient rejects: the exception leaves GET
ReplyThrow ==
  [kind |-> "throw", status |-> 0, error |-> "Invalid API key", emails |-> <<>>, count |-> 0]

\* no reply-tracker request
ReplyIdle ==
  /\ replyPc = "idle"
  /\ replyFailed = "none"
  /\ replyTrackers = <<>>
  /\ replyThreads = <<>>
  /\ replyCount = 0
  /\ replyResponse = NoReplyResponse
  /\ trackerCalls = 0
  /\ fetchCalls = 0

Fresh ==
  /\ pc = "idle"
  /\ req = NoRequest
  /\ conversations = <<>>
  /\ cursor = None
  /\ threadIds = <<>>
  /\ batch = "idle"
  /\ msgs = <<>>
  /\ threads = <<>>
  /\ plansState = "idle"
  /\ plans = <<>>
  /\ asm = <<>>
  /\ cat = <<>>
  /\ response = NoResponse
  /\ providerCalls = 0
  /\ storeCalls = 0
  /\ elapsed = 0

\* page requests over every content of the record store
Init ==
  /\ replyParams = [type |-> None]
  /\ replyAuth = TRUE
  /\ ReplyIdle
  /\ provider \in {"gmail", "outlook"}
  /\ query = PlainQuery
  /\ accessToken \in {None, "token"}
  /\ store \in Stores
  /\ prevCursor = None
  /\ Fresh

\* chains of page requests: the first token is the caller's
InitChain ==
  /\ replyParams = [type |-> None]
  /\ replyAuth = TRUE
  /\ ReplyIdle
  /\ provider \in {"gmail", "outlook"}
  /\ query \in PageQueries
  /\ accessToken \in {None, "token"}
  /\ store = <<>>
  /\ prevCursor = None
  /\ Fresh

\* one timed page request
InitTimed ==
  /\ replyParams = [type |-> None]
  /\ replyAuth = TRUE
  /\ ReplyIdle
  /\ provider \in {"gmail", "outlook"}
  /\ query = PlainQuery
  /\ accessToken = "token"
  /\ store = <<>>
  /\ prevCursor = None
  /\ Fresh

\* every query, up to the request handed to the provider client
InitQuery ==
  /\ replyParams = [type |-> None]
  /\ replyAuth = TRUE
  /\ ReplyIdle
  /\ provider \in {"gmail", "outlook"}
  /\ query \in Queries
  /\ accessToken \in {None, "token"}
  /\ store = <<>>
  /\ prevCursor = None
  /\ Fresh

\* ------------------------------------------------------ thread assembly
\* one element of threadsWithMessages
Thread(id, plan, category) ==
  [id |-> id, messages |-> <<[threadId |-> id]>>, plan |-> plan, category |-> category]

\* the array Promise.all resolves to: one entry per mapped thread, in the
\* order of the mapped array whatever the order of completion
threadsWithMessages_reversed(ts, a, c, rows) ==
  [i \in 1..Len(ts) |->
     Thread(ts[Len(ts) + 1 - i], a[Len(ts) + 1 - i].plan, c[Len(ts) + 1 - i])]

threadsWithMessages(ts, a, c, rows) ==
  [i \in 1..Len(ts) |-> Thread(ts[i], a[i].plan, c[i])]

\* threadsWithMessages.filter(isDefined): a thread without id gave no entry
definedThreads(ts) ==
  LET hasId(t) == isDefined(t.id)
  IN SelectSeq(ts, hasId)

\* getThreadsBatch: the threads that could be fetched, in the order asked
Fetched(ids, m) ==
  LET ok == {i \in 1..Len(ids) : m[i] = "ok"}
      F[n \in 0..Len(ids)] ==
        IF n = 0 THEN <<>>
        ELSE IF n \in ok THEN Append(F[n - 1], ids[n]) ELSE F[n - 1]
  IN F[Len(ids)]

\* ------------------------------------------------- getThreads (Gmail-style)
getThreads_call ==
  /\ provider = "gmail"
  /\ pc = "idle"
  /\ IF ~Truthy(accessToken)
     THEN /\ response' = Throw("Missing access token")
          /\ pc' = "done"
          /\ UNCHANGED <<req, providerCalls>>
     ELSE /\ req' = GmailRequest(query)
          /\ providerCalls' = providerCalls + 1
          /\ pc' = "listing"
          /\ UNCHANGED response
  /\ UNCHANGED <<provider, query, accessToken, store, conversations, cursor,
                 threadIds, batch, msgs, threads, plansState, plans, asm, cat,
                 prevCursor, storeCalls, elapsed>>
  /\ UNCHANGED replyVars

\* getThreadsWithNextPageToken resolves; Promise.all starts both calls
getThreads_listed ==
  /\ provider = "gmail"
  /\ pc = "listing"
  /\ \E page \in GmailPages, c \in Cursors :
       /\ Len(page) <= req.maxResults
       /\ conversations' = page
       /\ cursor' = c
       /\ threadIds' = filterDefined(page)
       /\ msgs' = [i \in 1..Len(filterDefined(page)) |-> "pending"]
  /\ batch' = "pending"
  /\ plansState' = "pending"
  /\ providerCalls' = providerCalls + 1
  /\ storeCalls' = storeCalls + 1
  /\ pc' = "loading"
  /\ UNCHANGED <<provider, query, accessToken, store, req, threads, plans, asm,
                 cat, response, prevCursor, elapsed>>
  /\ UNCHANGED replyVars

\* getThreadsBatch resolves with the threads it could fetch
getThreadsBatch_done ==
  /\ provider = "gmail"
  /\ pc = "loading"
  /\ batch = "pending"
  /\ \E ok \in SUBSET (1..Len(threadIds)) :
       /\ msgs' = [i \in 1..Len(threadIds) |-> IF i \in ok THEN "ok" ELSE "fail"]
       /\ threads' = Fetched(threadIds, msgs')
  /\ batch' = "done"
  /\ UNCHANGED <<provider, query, accessToken, store, pc, req, conversations,
                 cursor, threadIds, plansState, plans, asm, cat, response,
                 prevCursor, providerCalls, storeCalls, elapsed>>
  /\ UNCHANGED replyVars

\* findMany resolves (getThreads: inside the Promise.all)
getThreads_plans ==
  /\ provider = "gmail"
  /\ pc = "loading"
  /\ plansState = "pending"
  /\ plans' = findMany(store, emailAccountId, threadIds)
  /\ plansState' = "done"
  /\ UNCHANGED <<provider, query, accessToken, store, pc, req, conversations,
                 cursor, threadIds, batch, msgs, threads, asm, cat, response,
                 prevCursor, providerCalls, storeCalls, elapsed>>
  /\ UNCHANGED replyVars

\* the first Promise.all resolved: every map callback runs up to its await
getThreads_map ==
  /\ provider = "gmail"
  /\ pc = "loading"
  /\ batch = "done"
  /\ plansState = "done"
  /\ asm' = [i \in 1..Len(threads) |-> [started |-> TRUE, plan |-> find(plans, threads[i])]]
  /\ cat' = [i \in 1..Len(threads) |-> "pending"]
  /\ storeCalls' = storeCalls + Len(threads)
  /\ pc' = "assembling"
  /\ UNCHANGED <<provider, query, accessToken, store, req, conversations, cursor,
                 threadIds, batch, msgs, threads, plansState, plans, response,
                 prevCursor, providerCalls, elapsed>>
  /\ UNCHANGED replyVars

\* one getCategory call resolves (either provider)
getCategory_done ==
  /\ pc \in {"assembling", "fetching"}
  /\ \E i \in 1..Len(cat), v \in Categories :
       /\ cat[i] = "pending"
       /\ cat' = [cat EXCEPT ![i] = v]
  /\ UNCHANGED <<provider, query, accessToken, store, pc, req, conversations,
                 cursor, threadIds, batch, msgs, threads, plansState, plans, asm,
                 response, prevCursor, providerCalls, storeCalls, elapsed>>
  /\ UNCHANGED replyVars

getThreads_return ==
  /\ provider = "gmail"
  /\ pc = "assembling"
  /\ \A i \in 1..Len(cat) : cat[i] \in Categories
  /\ response' = Return(definedThreads(threadsWithMessages(threads, asm, cat, plans)), cursor)
  /\ pc' = "done"
  /\ UNCHANGED <<provider, query, accessToken, store, req, conversations, cursor,
                 threadIds, batch, msgs, threads, plansState, plans, asm, cat,
                 prevCursor, providerCalls, storeCalls, elapsed>>
  /\ UNCHANGED replyVars

\* ------------------------------------- GET + getOutlookThreads (Graph-style)
GET ==
  /\ provider = "outlook"
  /\ pc = "idle"
  /\ IF ~Truthy(accessToken)
     THEN /\ response' = NextResponseJson("Account not found", <<>>, None)
          /\ pc' = "done"
          /\ UNCHANGED <<req, providerCalls>>
     ELSE /\ req' = OutlookRequest(query)
          /\ providerCalls' = providerCalls + 1
          /\ pc' = "listing"
          /\ UNCHANGED response
  /\ UNCHANGED <<provider, query, accessToken, store, conversations, cursor,
                 threadIds, batch, msgs, threads, plansState, plans, asm, cat,
                 prevCursor, storeCalls, elapsed>>
  /\ UNCHANGED replyVars

\* request.get() resolves; findMany is awaited next
getOutlookThreads_listed ==
  /\ provider = "outlook"
  /\ pc = "listing"
  /\ \E page \in OutlookPages, c \in Cursors :
       /\ Len(page) <= req.maxResults
       /\ conversations' = page
       /\ cursor' = c
       /\ threadIds' = page
       /\ threads' = page
       /\ msgs' = [i \in 1..Len(page) |-> "idle"]
       /\ asm' = [i \in 1..Len(page) |-> NoAsm]
       /\ cat' = [i \in 1..Len(page) |-> "idle"]
  /\ plansState' = "pending"
  /\ storeCalls' = storeCalls + 1
  /\ pc' = "plans"
  /\ UNCHANGED <<provider, query, accessToken, store, req, batch, plans,
                 response, prevCursor, providerCalls, elapsed>>
  /\ UNCHANGED replyVars

\* findMany resolves; every map callback starts its message fetch
getOutlookThreads_plans ==
  /\ provider = "outlook"
  /\ pc = "plans"
  /\ plansState = "pending"
  /\ plans' = findMany(store, emailAccountId, threadIds)
  /\ plansState' = "done"
  /\ msgs' = [i \in 1..Len(threads) |-> "pending"]
  /\ providerCalls' = providerCalls + Len(threads)
  /\ pc' = "fetching"
  /\ UNCHANGED <<provider, query, accessToken, store, req, conversations, cursor,
                 threadIds, batch, threads, asm, cat, response, prevCursor,
                 storeCalls, elapsed>>
  /\ UNCHANGED replyVars

\* one /me/conversations/{id}/threads call resolves or rejects; a rejection
\* rejects the Promise.all and leaves getOutlookThreads and GET as an exception
getOutlookThreads_messages ==
  /\ provider = "outlook"
  /\ pc = "fetching"
  /\ \E i \in 1..Len(threads), ok \in BOOLEAN :
       /\ msgs[i] = "pending"
       /\ IF ok
          THEN /\ msgs' = [msgs EXCEPT ![i] = "ok"]
               /\ asm' = [asm EXCEPT ![i] = [started |-> TRUE, plan |-> find(plans, threads[i])]]
               /\ cat' = [cat EXCEPT ![i] = "pending"]
               /\ storeCalls' = storeCalls + 1
               /\ UNCHANGED <<response, pc>>
          ELSE /\ msgs' = [msgs EXCEPT ![i] = "fail"]
               /\ response' = Throw("message fetch failed")
               /\ pc' = "done"
               /\ UNCHANGED <<asm, cat, storeCalls>>
  /\ UNCHANGED <<provider, query, accessToken, store, req, conversations, cursor,
                 threadIds, batch, threads, plansState, plans, prevCursor,
                 providerCalls, elapsed>>
  /\ UNCHANGED replyVars

getOutlookThreads_return ==
  /\ provider = "outlook"
  /\ pc = "fetching"
  /\ \A i \in 1..Len(threads) : msgs[i] = "ok" /\ cat[i] \in Categories
  /\ response' = NextResponseJson(None, threadsWithMessages(threads, asm, cat, plans), cursor)
  /\ pc' = "done"
  /\ UNCHANGED <<provider, query, accessToken, store, req, conversations, cursor,
                 threadIds, batch, msgs, threads, plansState, plans, asm, cat,
                 prevCursor, providerCalls, storeCalls, elapsed>>
  /\ UNCHANGED replyVars

\* ----------------------------------------------------------- environment
\* the provider's list call rejects: nothing catches it
list_rejected ==
  /\ pc = "listing"
  /\ response' = Throw("ProviderUnavailable")
  /\ pc' = "done"
  /\ UNCHANGED <<provider, query, accessToken, store, req, conversations, cursor,
                 threadIds, batch, msgs, threads, plansState, plans, asm, cat,
                 prevCursor, providerCalls, storeCalls, elapsed>>
  /\ UNCHANGED replyVars

\* the caller asks for the next page with the token of the last response
nextPage ==
  /\ pc = "done"
  /\ response.kind \in {"json", "return"}
  /\ response.error = None
  /\ response.nextPageToken /= None
  /\ prevCursor = None
  /\ query' = [query EXCEPT !.nextPageToken = response.nextPageToken]
  /\ prevCursor' = cursor
  /\ pc' = "idle"
  /\ req' = NoRequest
  /\ conversations' = <<>>
  /\ cursor' = None
  /\ threadIds' = <<>>
  /\ batch' = "idle"
  /\ msgs' = <<>>
  /\ threads' = <<>>
  /\ plansState' = "idle"
  /\ plans' = <<>>
  /\ asm' = <<>>
  /\ cat' = <<>>
  /\ response' = NoResponse
  /\ providerCalls' = 0
  /\ storeCalls' = 0
  /\ elapsed' = 0
  /\ UNCHANGED <<provider, accessToken, store>>
  /\ UNCHANGED replyVars

\* a time unit passes while the request is in flight
Tick ==
  /\ pc \notin {"idle", "done"}
  /\ elapsed <= maxDuration
  /\ elapsed' = elapsed + 1
  /\ UNCHANGED <<provider, query, accessToken, store, pc, req, conversations,
                 cursor, threadIds, batch, msgs, threads, plansState, plans, asm,
                 cat, response, prevCursor, providerCalls, storeCalls>>
  /\ UNCHANGED replyVars

Next ==
  \/ getThreads_call
  \/ getThreads_listed
  \/ getThreadsBatch_done
  \/ getThreads_plans
  \/ getThreads_map
  \/ getCategory_done
  \/ getThreads_return
  \/ GET
  \/ getOutlookThreads_listed
  \/ getOutlookThreads_plans
  \/ getOutlookThreads_messages
  \/ getOutlookThreads_return
  \/ list_rejected

Spec == Init /\ [][Next]_vars

NextChain == Next \/ nextPage
SpecChain == InitChain /\ [][NextChain]_vars

NextTimed == Next \/ Tick
SpecTimed == InitTimed /\ [][NextTimed]_vars

NextQuery == getThreads_call \/ GET
SpecQuery == InitQuery /\ [][NextQuery]_vars

\* ------------------------------------------- reply-tracker endpoint (GET)
InitReply ==
  /\ provider = "gmail"
  /\ query = PlainQuery
  /\ accessToken = "token"
  /\ store = <<>>
  /\ prevCursor = None
  /\ Fresh
  /\ replyParams \in [type : ReplyTypeParams]
  /\ replyAuth \in BOOLEAN
  /\ ReplyIdle

\* GET is called and awaits validateApiKeyAndGetGmailClient
reply_GET ==
  /\ replyPc = "idle"
  /\ replyPc' = "auth"
  /\ UNCHANGED <<replyParams, replyAuth, replyFailed, replyTrackers, replyThreads,
                 replyCount, replyResponse, trackerCalls, fetchCalls>>
  /\ UNCHANGED pageVars

\* the key check resolves or rejects; then safeParse, getType and the call of
\* getPaginatedThreadTrackers
reply_validated ==
  /\ replyPc = "auth"
  /\ IF ~replyAuth
     THEN /\ replyResponse' = ReplyThrow
          /\ replyFailed' = "auth"
          /\ replyPc' = "done"
          /\ UNCHANGED trackerCalls
     ELSE IF ~safeParse(replyParams).success
     THEN /\ replyResponse' = ReplyError("Invalid query parameters", 400)
          /\ replyFailed' = "validation"
          /\ replyPc' = "done"
          /\ UNCHANGED trackerCalls
     ELSE IF getType(safeParse(replyParams).data.type) = "throw"
     THEN /\ replyResponse' = ReplyError("Failed to retrieve emails", 500)
          /\ replyFailed' = "trackers"
          /\ replyPc' = "done"
          /\ UNCHANGED trackerCalls
     ELSE /\ trackerCalls' = trackerCalls + 1
          /\ replyPc' = "trackers"
          /\ UNCHANGED <<replyResponse, replyFailed>>
  /\ UNCHANGED <<replyParams, replyAuth, replyTrackers, replyThreads, replyCount,
                 fetchCalls>>
  /\ UNCHANGED pageVars

\* getPaginatedThreadTrackers resolves or rejects; then getThreadsBatchAndParse
\* is called with the trackers' threadIds
reply_trackers ==
  /\ replyPc = "trackers"
  /\ \E ok \in BOOLEAN, page \in OutlookPages, more \in {0, 5} :
       IF ok
       THEN /\ replyTrackers' = page
            /\ replyCount' = Len(page) + more
            /\ fetchCalls' = fetchCalls + 1
            /\ replyPc' = "threads"
            /\ UNCHANGED <<replyResponse, replyFailed>>
       ELSE /\ page = <<>>
            /\ more = 0
            /\ replyResponse' = ReplyError("Failed to retrieve emails", 500)
            /\ replyFailed' = "trackers"
            /\ replyPc' = "done"
            /\ UNCHANGED <<replyTrackers, replyCount, fetchCalls>>
  /\ UNCHANGED <<replyParams, replyAuth, replyThreads, trackerCalls>>
  /\ UNCHANGED pageVars

\* getThreadsBatchAndParse resolves with the threads it fetched, or rejects;
\* then the emails are built and returned
reply_threads ==
  /\ replyPc = "threads"
  /\ \E ok \in BOOLEAN, got \in SUBSET (1..Len(replyTrackers)) :
       LET ids == Fetched(replyTrackers,
                          [i \in 1..Len(replyTrackers) |-> IF i \in got THEN "ok" ELSE "fail"])
       IN \E ms \in [1..Len(ids) -> MessageLists] :
            IF ok
            THEN /\ replyThreads' = [i \in 1..Len(ids) |-> [id |-> ids[i], messages |-> ms[i]]]
                 /\ replyResponse' = ReplyEmails(replyThreads', replyCount)
                 /\ UNCHANGED replyFailed
            ELSE /\ got = {}
                 /\ replyResponse' = ReplyError("Failed to retrieve emails", 500)
                 /\ replyFailed' = "threads"
                 /\ UNCHANGED replyThreads
  /\ replyPc' = "done"
  /\ UNCHANGED <<replyParams, replyAuth, replyTrackers, replyCount, trackerCalls,
                 fetchCalls>>
  /\ UNCHANGED pageVars

NextReply ==
  \/ reply_GET
  \/ reply_validated
  \/ reply_trackers
  \/ reply_threads

SpecReply == InitReply /\ [][NextReply]_vars

\* ================================================================ claims
\* the request was handed to the provider client
Sent == req.api /= None

\* the request ended with a page
Answered == pc = "done" /\ response.kind \in {"json", "return"} /\ response.error = None

\* thread ids of the response, in its order
ResponseIds == [i \in 1..Len(response.threads) |-> response.threads[i].id]

\* ---------------------------------------------------------------------- C1
\* C1: once the provider page is there, the request ends with a page whatever
\* per-thread message fetches fail: the response holds exactly the threads
\* whose fetch succeeded and nextPageToken is the provider's cursor.
C1_PartialFailureTolerated ==
  (pc = "done" /\ plansState /= "idle") =>
    /\ Answered
    /\ ResponseIds = Fetched(threadIds, msgs)
    /\ response.nextPageToken = cursor

\* ---------------------------------------------------------------------- C2
BothSet == Truthy(query.q) /\ Truthy(query.fromEmail)
SubjectClause == "contains(subject,'" \o query.q \o "')"
SenderClause == "from/emailAddress/address eq '" \o query.fromEmail \o "'"

\* C2 as stated: with q and fromEmail both set, the request of either provider
\* is built from q only.
C2_PrecedenceBothProviders ==
  (Sent /\ BothSet) =>
    /\ provider = "gmail" => req.q = query.q
    /\ provider = "outlook" => req.filter = SubjectClause

\* C2 amended: with q and fromEmail both set, the Gmail search string is q
\* alone; the Graph filter is the subject condition and the sender condition
\* joined by " and ".
C2_PrecedenceGmailConjunctionGraph ==
  (Sent /\ BothSet) =>
    /\ provider = "gmail" => req.q = query.q
    /\ provider = "outlook" => req.filter = SubjectClause \o " and " \o SenderClause

C2_Witness ==
  /\ Sent
  /\ BothSet
  /\ provider = "gmail"
  /\ req.q = "invoice"

\* ---------------------------------------------------------------------- C3
RecognizedTypes == {"inbox", "sent", "draft", "trash", "spam", "starred",
                    "important", "unread", "archive", "all"}

\* lower case of the type values of the model
LowerCase(t) ==
  CASE t = "Inbox" -> "inbox"
    [] t = "ARCHIVE" -> "archive"
    [] OTHER -> t

\* getLabelIds decides the label ids: the request went out and no labelId is set
LabelsFromType == Sent /\ provider = "gmail" /\ ~Truthy(query.labelOrFolderId)

\* C3 as stated: every type that is no recognized name in any letter case
\* gives exactly [INBOX].
C3_UnrecognizedTypeIsInbox ==
  (LabelsFromType /\ LowerCase(query.type) \notin RecognizedTypes) =>
    req.labelIds = <<GmailLabel.INBOX>>

\* C3 amended: a missing or empty type and the strings "undefined" and "null"
\* give exactly [INBOX]; any other string that is not literally a recognized
\* name is itself the one label id.
C3_MissingTypeIsInbox ==
  LabelsFromType =>
    /\ query.type \in {None, "", "undefined", "null"} =>
         req.labelIds = <<GmailLabel.INBOX>>
    /\ query.type \notin {None, "", "undefined", "null"} \cup RecognizedTypes =>
         req.labelIds = <<query.type>>

C3_Witness ==
  /\ LabelsFromType
  /\ query.type = "undefined"
  /\ req.labelIds = <<"INBOX">>

\* ---------------------------------------------------------------------- C4
RECURSIVE IsSubsequence(_, _)
IsSubsequence(s, t) ==
  IF Len(s) = 0 THEN TRUE
  ELSE IF Len(t) = 0 THEN FALSE
  ELSE IF s[1] = t[1] THEN IsSubsequence(Tail(s), Tail(t))
  ELSE IsSubsequence(s, Tail(t))

\* C4: the thread ids of a response are a subsequence of the ids of the
\* provider page, none twice, whatever the stores hold.
C4_ResponseIsSubsequenceOfPage ==
  Answered =>
    /\ IsSubsequence(ResponseIds, conversations)
    /\ NoRepeat(ResponseIds)

\* two threads answered while the store holds a row
C4_Witness ==
  /\ Answered
  /\ Len(response.threads) >= 2
  /\ Len(store) >= 1

\* ---------------------------------------------------------------------- C5
\* C5: the provider client is handed the request's token (nothing when the
\* request has none), the response carries the provider's cursor as it came,
\* and in a chain the provider gets its own cursor back.
C5_TokenIsOpaque ==
  /\ Sent => req.pageToken = (IF query.nextPageToken = "" THEN None ELSE query.nextPageToken)
  /\ Answered => response.nextPageToken = cursor
  /\ (Sent /\ prevCursor /= None) => req.pageToken = prevCursor

\* the second page of a chain was answered with a further cursor
C5_Witness ==
  /\ prevCursor /= None
  /\ Answered
  /\ req.pageToken = "c1"
  /\ response.nextPageToken = "c1"

\* ---------------------------------------------------------------------- C6
\* C6: without an access token the Graph-style endpoint ends with an error
\* payload and a 4xx status, and calls neither the provider nor the stores.
C6_UnauthenticatedIs4xx ==
  (provider = "outlook" /\ ~Truthy(accessToken) /\ pc = "done") =>
    /\ response.error /= None
    /\ response.status >= 400
    /\ response.status <= 499
    /\ providerCalls = 0
    /\ storeCalls = 0

\* ---------------------------------------------------------------------- C7
\* C7: past maxDuration the Graph-style request has ended with a Timeout error
\* and no thread data; it is not waiting any more.
C7_DeadlineEndsRequest ==
  (provider = "outlook" /\ elapsed > maxDuration) =>
    /\ pc = "done"
    /\ response.error = "Timeout"
    /\ response.threads = <<>>

\* ---------------------------------------------------------------------- C8
HasLabelOrFolder == Sent /\ Truthy(query.labelOrFolderId)

\* C8: with a labelOrFolderId the request is restricted to it and is the same
\* for every type; a Gmail query with neither q nor fromEmail gets no search
\* string.
C8_LabelOrFolderOverridesType ==
  HasLabelOrFolder =>
    /\ provider = "gmail" =>
         /\ req.labelIds = <<query.labelOrFolderId>>
         /\ \A t \in Types : req = GmailRequest([query EXCEPT !.type = t])
         /\ (~Truthy(query.q) /\ ~Truthy(query.fromEmail)) => req.q = None
    /\ provider = "outlook" =>
         /\ \A t \in Types : req = OutlookRequest([query EXCEPT !.type = t])
         /\ req /= OutlookRequest([query EXCEPT !.labelOrFolderId = None])

\* ---------------------------------------------------------------------- C9
MessageLoadStarted ==
  IF provider = "gmail" THEN batch /= "idle"
  ELSE \A i \in 1..Len(msgs) : msgs[i] /= "idle"

MessageLoadDone ==
  /\ provider = "gmail" => batch = "done"
  /\ \A i \in 1..Len(msgs) : msgs[i] \in {"ok", "fail"}

\* C9: the message load and the record lookup are started together, and no
\* thread is assembled before the message load, the record lookup and every
\* category lookup of the page are done.
C9_FanOutFanIn ==
  /\ plansState = "pending" => MessageLoadStarted
  /\ \A i \in 1..Len(asm) :
       asm[i].started =>
         /\ MessageLoadDone
         /\ plansState = "done"
         /\ \A j \in 1..Len(cat) : cat[j] \in Categories

\* --------------------------------------------------------------------- C10
\* the first row of the store, in its order, that is of this account and
\* thread and is PENDING or SKIPPED
FirstMatch(rows, acct, id) ==
  LET hits == {i \in 1..Len(rows) :
                 /\ rows[i].emailAccountId = acct
                 /\ rows[i].threadId = id
                 /\ rows[i].status \in {"PENDING", "SKIPPED"}}
  IN IF hits = {} THEN NoPlan
     ELSE rows[CHOOSE i \in hits : \A j \in hits : i <= j]

\* C10: the plan of every answered thread is the first PENDING or SKIPPED row
\* of the requesting account for that thread, or none when there is no such
\* row; it depends on nothing else of the page.
C10_PlanIsFirstMatch ==
  Answered =>
    \A i \in 1..Len(response.threads) :
      response.threads[i].plan = FirstMatch(store, emailAccountId, response.threads[i].id)

\* a thread answered with the second row of the store as its plan, and one
\* answered without a plan
C10_Witness ==
  /\ Answered
  /\ \E i \in 1..Len(response.threads) : response.threads[i].plan.id = 2
  /\ \E i \in 1..Len(response.threads) : response.threads[i].plan = NoPlan

\* --------------------------------------------------------------------- C11
\* the last message of a thread, when it has one
HasLast(t) == Len(t.messages) > 0
Last(t) == t.messages[Len(t.messages)]

====
